---- MODULE Spec2Model ----
(***************************************************************************)
(* The CHIP-8 style interpreter core of src/main.rs: struct CPU and its    *)
(* fetch-decode-execute loop CPU::run, with the operations call, ret,      *)
(* jump, add_xy and sub_xy.  One step of the model is one iteration of     *)
(* the loop in run (lines 16-34).                                          *)
(***************************************************************************)
EXTENDS Integers, Naturals, Sequences, FiniteSets, TLC

VARIABLES
    registers,           \* CPU.registers: [u8; 16]
    position_in_memory,  \* CPU.position_in_memory: usize
    memory,              \* CPU.memory: [u8; 0x1000], held as the bytes
                         \* stored into it; every other byte is 0
    stack,               \* CPU.stack: [u16; 16]
    stack_pointer,       \* CPU.stack_pointer: usize
    status,              \* "running" in the loop, "halted" after `return`,
                         \* "panicked" after panic!/todo!/a failed index
    panic,               \* the panic that ended the run: [msg, arg]
    opcode,              \* run's local `opcode`: the word fetched last
    p,                   \* read_opcode's local `p`: where it was fetched
    sp,                  \* call's local `sp`: stack_pointer on entry
    output               \* the line printed last by println! (63, 77)

vars == <<registers, position_in_memory, memory, stack, stack_pointer,
          status, panic, opcode, p, sp, output>>

----------------------------------------------------------------------------
(* Sizes of the arrays of struct CPU.                                      *)

NumRegisters == 16
MemoryLen == 4096
StackLen == 16
FlagRegister == 15

Byte == 0..255
RegIndex == 0..(NumRegisters - 1)
Address == 0..(MemoryLen - 1)
StackIndex == 0..(StackLen - 1)

(* A narrowing to 8 bits.                                                  *)
AsU8(n) == n % 256

(* `as u16`: narrowing of a usize to 16 bits.                              *)
AsU16(n) == n % 65536

----------------------------------------------------------------------------
(* Panics.                                                                 *)

NoPanic == [msg |-> "", arg |-> 0]
StackOverflow == [msg |-> "Stack overflow!", arg |-> 0]
StackUnderflow == [msg |-> "Stack underflow", arg |-> 0]
UnsupportedOpcode(word) == [msg |-> "not yet implemented: opcode", arg |-> word]
IndexOutOfBounds(i) == [msg |-> "index out of bounds", arg |-> i]

NoOutput == [op |-> "", lhs |-> 0, rhs |-> 0, val |-> 0]

----------------------------------------------------------------------------
(* Fetch and decode.                                                       *)

(* Only memory[p] checked, memory[p + 1] read unchecked.                   *)
FetchInBoundsFirstByte(pos) == pos < MemoryLen

(* The index checks of memory[p] and memory[p + 1] in read_opcode.         *)
FetchInBounds(pos) == pos + 1 < MemoryLen

(* The index that fails when the fetch is out of bounds.                   *)
FetchBadIndex(pos) == IF pos < MemoryLen THEN pos + 1 ELSE pos

(* memory[a] for a in bounds: the byte stored at a, or the 0 that          *)
(* [0; 4096] left there.                                                   *)
ByteAt(mem, a) == IF a \in DOMAIN mem THEN mem[a] ELSE 0

ReadOpcode(mem, pos) == ByteAt(mem, pos) * 256 + ByteAt(mem, pos + 1)

FieldC(word) == (word \div 4096) % 16
FieldX(word) == (word \div 256) % 16
FieldY(word) == (word \div 16) % 16
FieldD(word) == word % 16
(* The address masked with 0x00FF instead of 0x0FFF.                       *)
FieldNNNLowByte(word) == word % 256

(* The address masked with 0x1FFF instead of 0x0FFF.                       *)
FieldNNNWide(word) == word % 8192

FieldNNN(word) == word % 4096

(* The match with the x of the ret arm left open: (0, _, 0xE, 0xE).        *)
DispatchAnyX(c, x, y, d) ==
    IF c = 0 /\ x = 0 /\ y = 0 /\ d = 0 THEN "return"
    ELSE IF c = 0 /\ y = 14 /\ d = 14 THEN "ret"
    ELSE IF c = 1 THEN "jump"
    ELSE IF c = 2 THEN "call"
    ELSE IF c = 8 /\ d = 4 THEN "add_xy"
    ELSE IF c = 8 /\ d = 5 THEN "sub_xy"
    ELSE "todo"

(* The match with the add_xy arm open in d: (0x8, _, _, _).                *)
DispatchAnyD(c, x, y, d) ==
    IF c = 0 /\ x = 0 /\ y = 0 /\ d = 0 THEN "return"
    ELSE IF c = 0 /\ x = 0 /\ y = 14 /\ d = 14 THEN "ret"
    ELSE IF c = 1 THEN "jump"
    ELSE IF c = 2 THEN "call"
    ELSE IF c = 8 /\ d = 5 THEN "sub_xy"
    ELSE IF c = 8 THEN "add_xy"
    ELSE "todo"

(* The match of run, arm by arm in source order.                           *)
Dispatch(c, x, y, d) ==
    IF c = 0 /\ x = 0 /\ y = 0 /\ d = 0 THEN "return"
    ELSE IF c = 0 /\ x = 0 /\ y = 14 /\ d = 14 THEN "ret"
    ELSE IF c = 1 THEN "jump"
    ELSE IF c = 2 THEN "call"
    ELSE IF c = 8 /\ d = 4 THEN "add_xy"
    ELSE IF c = 8 /\ d = 5 THEN "sub_xy"
    ELSE "todo"

Operation(word) ==
    Dispatch(FieldC(word), FieldX(word), FieldY(word), FieldD(word))

----------------------------------------------------------------------------
(* Arithmetic.                                                             *)

(* A carry raised already at 255.                                          *)
OverflowingAddEarly(a, b) == [val |-> (a + b) % 256, overflow |-> (a + b) >= 255]

(* u8::overflowing_add: the wrapped sum and whether it overflowed.         *)
OverflowingAdd(a, b) == [val |-> (a + b) % 256, overflow |-> (a + b) > 255]

(* The difference taken the other way round.                               *)
WrappingSubReversed(a, b) == (b - a) % 256

(* u8::wrapping_sub, as called: arg2.wrapping_sub(arg1).                   *)
WrappingSub(a, b) == (a - b) % 256

(* The flag of sub_xy, line 75.                                            *)
SubFlag(arg1, arg2) == IF arg1 >= arg2 THEN 1 ELSE 0

(* The flag of add_xy, lines 65-69.                                        *)
AddFlag(overflow) == IF overflow THEN 1 ELSE 0

----------------------------------------------------------------------------
(* The operations.  Each is entered after run has advanced               *)
(* position_in_memory past the instruction (line 18).                      *)

(* The program counter left on the instruction just fetched.               *)
NotAdvanced == position_in_memory

Advanced == position_in_memory + 2

(* The capacity test of call, line 39.                                     *)
CallOverflows(s) == s > StackLen

(* An index check that lets the index one past the end through.            *)
StackIndexInBoundsLax(i) == i <= StackLen

(* The index check of stack[i], lines 42 and 51.                           *)
StackIndexInBounds(i) == i < StackLen

(* The address of the call itself, not of the instruction after it.        *)
ReturnAddressOfCall(pos) == AsU16(pos - 2)

(* The return address call stores, line 42.                                *)
ReturnAddress(pos) == AsU16(pos)

Panics(why) ==
    /\ status' = "panicked"
    /\ panic' = why

(* A test that also turns away the last frame.                             *)
StackIsEmptyOrLast(s) == s <= 1

(* The test of ret, line 47.                                               *)
StackIsEmpty(s) == s = 0

(* A call that keeps its frame in memory, at the stack pointer, as some    *)
(* CHIP-8 interpreters do.                                                 *)
call_into_memory(addr) ==
    /\ sp' = stack_pointer
    /\ IF ~StackIndexInBounds(stack_pointer)
       THEN /\ Panics(IndexOutOfBounds(stack_pointer))
            /\ position_in_memory' = Advanced
            /\ UNCHANGED <<memory, stack_pointer>>
       ELSE /\ memory' = (stack_pointer :> ReturnAddress(Advanced) % 256) @@ memory
            /\ stack_pointer' = stack_pointer + 1
            /\ position_in_memory' = addr
            /\ UNCHANGED <<status, panic>>
    /\ UNCHANGED <<registers, stack, output>>

call(addr) ==
    /\ sp' = stack_pointer
    /\ IF CallOverflows(stack_pointer)
       THEN /\ Panics(StackOverflow)
            /\ position_in_memory' = Advanced
            /\ UNCHANGED <<stack, stack_pointer>>
       ELSE IF ~StackIndexInBounds(stack_pointer)
       THEN /\ Panics(IndexOutOfBounds(stack_pointer))
            /\ position_in_memory' = Advanced
            /\ UNCHANGED <<stack, stack_pointer>>
       ELSE /\ stack' = [stack EXCEPT ![stack_pointer] = ReturnAddress(Advanced)]
            /\ stack_pointer' = stack_pointer + 1
            /\ position_in_memory' = addr
            /\ UNCHANGED <<status, panic>>
    /\ UNCHANGED <<registers, memory, output>>

(* A return that reads the frame and leaves it on the stack.               *)
ret_without_pop ==
    /\ IF StackIsEmpty(stack_pointer)
       THEN /\ Panics(StackUnderflow)
            /\ position_in_memory' = Advanced
       ELSE /\ position_in_memory' = stack[stack_pointer - 1]
            /\ UNCHANGED <<status, panic>>
    /\ UNCHANGED <<registers, memory, stack, stack_pointer, sp, output>>

ret ==
    /\ IF StackIsEmpty(stack_pointer)
       THEN /\ Panics(StackUnderflow)
            /\ position_in_memory' = Advanced
            /\ UNCHANGED stack_pointer
       ELSE IF ~StackIndexInBounds(stack_pointer - 1)
       THEN /\ Panics(IndexOutOfBounds(stack_pointer - 1))
            /\ position_in_memory' = Advanced
            /\ stack_pointer' = stack_pointer - 1
       ELSE /\ stack_pointer' = stack_pointer - 1
            /\ position_in_memory' = stack[stack_pointer - 1]
            /\ UNCHANGED <<status, panic>>
    /\ UNCHANGED <<registers, memory, stack, sp, output>>

jump(addr) ==
    /\ position_in_memory' = addr
    /\ UNCHANGED <<registers, memory, stack, stack_pointer, status, panic,
                   sp, output>>

add_xy(x, y) ==
    LET arg1 == registers[x]
        arg2 == registers[y]
        sum == OverflowingAdd(arg1, arg2)
    IN  /\ output' = [op |-> "+", lhs |-> arg1, rhs |-> arg2, val |-> sum.val]
        /\ registers' = [[registers EXCEPT ![x] = sum.val]
                            EXCEPT ![FlagRegister] = AddFlag(sum.overflow)]
        /\ position_in_memory' = Advanced
        /\ UNCHANGED <<memory, stack, stack_pointer, status, panic, sp>>

sub_xy(x, y) ==
    LET arg1 == registers[x]
        arg2 == registers[y]
        val == WrappingSub(arg2, arg1)
    IN  /\ output' = [op |-> "-", lhs |-> arg2, rhs |-> arg1, val |-> val]
        /\ registers' = [[registers EXCEPT ![FlagRegister] = SubFlag(arg1, arg2)]
                            EXCEPT ![y] = val]
        /\ position_in_memory' = Advanced
        /\ UNCHANGED <<memory, stack, stack_pointer, status, panic, sp>>

----------------------------------------------------------------------------
(* One iteration of the loop of run: fetch, advance, decode, dispatch.     *)

Running == status = "running"

(* The word at position_in_memory (defined when the fetch is in bounds).   *)
Fetched == ReadOpcode(memory, position_in_memory)

(* read_opcode succeeded and the match selected the arm `name`.            *)
Selects(name) ==
    /\ Running
    /\ FetchInBounds(position_in_memory)
    /\ Operation(Fetched) = name
    /\ opcode' = Fetched
    /\ p' = position_in_memory

(* memory[p] or memory[p + 1] is out of bounds: read_opcode panics.        *)
RunFetchPanics ==
    /\ Running
    /\ ~FetchInBounds(position_in_memory)
    /\ p' = position_in_memory
    /\ Panics(IndexOutOfBounds(FetchBadIndex(position_in_memory)))
    /\ UNCHANGED <<registers, position_in_memory, memory, stack,
                   stack_pointer, opcode, sp, output>>

(* (0, 0, 0, 0) => return                                                  *)
RunHalt ==
    /\ Selects("return")
    /\ status' = "halted"
    /\ position_in_memory' = Advanced
    /\ UNCHANGED <<registers, memory, stack, stack_pointer, panic, sp, output>>

RunRet == Selects("ret") /\ ret

RunJump == Selects("jump") /\ jump(FieldNNN(Fetched))

RunCall == Selects("call") /\ call(FieldNNN(Fetched))

RunAdd == Selects("add_xy") /\ add_xy(FieldX(Fetched), FieldY(Fetched))

RunSub == Selects("sub_xy") /\ sub_xy(FieldX(Fetched), FieldY(Fetched))

(* _ => todo!("opcode {:04x}", opcode)                                     *)
RunTodo ==
    /\ Selects("todo")
    /\ Panics(UnsupportedOpcode(Fetched))
    /\ position_in_memory' = Advanced
    /\ UNCHANGED <<registers, memory, stack, stack_pointer, sp, output>>

Next ==
    \/ RunFetchPanics
    \/ RunHalt
    \/ RunRet
    \/ RunJump
    \/ RunCall
    \/ RunAdd
    \/ RunSub
    \/ RunTodo

----------------------------------------------------------------------------
(* Instruction words, by the encoding the match of run decodes.            *)

HaltWord == 0
RetWord == 238
JumpTo(addr) == 4096 + addr
CallTo(addr) == 8192 + addr
AddWord(x, y) == 32768 + x * 256 + y * 16 + 4
SubWord(x, y) == 32768 + x * 256 + y * 16 + 5

(* The memory a driver builds as main does (lines 84, 92-108): all zero,   *)
(* then the two bytes of each word of `prog` stored at its address.        *)
Image(prog) ==
    [a \in DOMAIN prog \cup {b + 1 : b \in DOMAIN prog} |->
        IF a \in DOMAIN prog THEN prog[a] \div 256 ELSE prog[a - 1] % 256]

(* The program of main, lines 93-108.                                      *)
MainProgram ==
    (0 :> CallTo(256)) @@ (2 :> CallTo(512)) @@ (4 :> HaltWord) @@
    (256 :> AddWord(0, 1)) @@ (258 :> RetWord) @@
    (512 :> SubWord(1, 0)) @@ (514 :> RetWord)

(* The registers of main, lines 83, 89, 90.                                *)
MainRegisters == [i \in RegIndex |-> IF i = 0 THEN 5 ELSE IF i = 1 THEN 10 ELSE 0]

(* One call to an addition and back.                                       *)
AddProgram ==
    (0 :> CallTo(256)) @@ (256 :> AddWord(0, 1)) @@ (258 :> RetWord)

(* Two chained calls, the inner one to a subtraction.                      *)
SubProgram ==
    (0 :> CallTo(256)) @@ (256 :> CallTo(512)) @@ (258 :> RetWord) @@
    (512 :> SubWord(0, 1)) @@ (514 :> RetWord)

(* Register banks: registers k, k + 17, k + 34, ... (mod 256), and a bank  *)
(* of the boundary values.                                                 *)
MaxBank == 2
SpreadRegisters(k) == [i \in RegIndex |-> (k + 17 * i) % 256]
EdgeRegisters ==
    [i \in RegIndex |->
        <<0, 1, 255, 254, 128, 127, 129, 2, 5, 10, 100, 156, 200, 56, 64, 192>>[i + 1]]
RegisterBanks ==
    {MainRegisters, EdgeRegisters} \cup {SpreadRegisters(k) : k \in 0..MaxBank}

(* A chain of n nested calls: the call at 0 enters level 1 at 16, level i  *)
(* at 16 * i calls level i + 1, level n returns at once, and every level   *)
(* returns after its call.                                                 *)
MaxChain == 17
ChainProgram(n) ==
    [a \in {0} \cup {16 * i : i \in 1..n} \cup {16 * i + 2 : i \in 1..n} |->
        IF a = 0 THEN (IF n = 0 THEN HaltWord ELSE CallTo(16))
        ELSE IF a % 16 = 2 THEN RetWord
        ELSE IF a = 16 * n THEN RetWord
        ELSE CallTo(a + 16)]

(* Every 16-bit word, tried one at a time at address 0.                    *)
SingleWords == 0..65535

(* Small programs over five slots, with jumps and calls among them, to an  *)
(* odd address and to the last bytes of memory.                            *)
Targets == {0, 256, 4094, 4095}
Transfers == {JumpTo(a) : a \in Targets} \cup {CallTo(a) : a \in Targets}
FirstWords == Transfers \cup {HaltWord, RetWord, AddWord(2, 2), SubWord(0, 1), 61440}
SecondWords == {HaltWord, RetWord, JumpTo(0), CallTo(256), AddWord(2, 3)}
LastWords == {HaltWord, RetWord, AddWord(2, 2), CallTo(256)}
SlotPrograms ==
    {(0 :> w0) @@ (2 :> w1) @@ (256 :> w2) @@ (258 :> w3) @@ (4094 :> w4) :
        w0 \in FirstWords, w1 \in SecondWords, w2 \in FirstWords,
        w3 \in {HaltWord, RetWord, JumpTo(256)}, w4 \in LastWords}
SlotRegisters == [MainRegisters EXCEPT ![2] = 128]

(* A call from p to a subroutine at a that returns at once, entered by a   *)
(* jump from 0: call sites and subroutines at even and odd addresses and   *)
(* at the end of memory.                                                   *)
CallSites == {4, 255, 2048, 4092, 4094}
ReturnSites == {8, 513, 3001, 4090, 4094}
CallReturnPrograms ==
    {(0 :> JumpTo(pair[1])) @@ (pair[1] :> CallTo(pair[2])) @@ (pair[2] :> RetWord) :
        pair \in {q \in CallSites \X ReturnSites : q[1] # q[2]}}

InitCPU(mem, regs) ==
    /\ registers = regs
    /\ memory = mem
    /\ position_in_memory = 0
    /\ stack = [i \in StackIndex |-> 0]
    /\ stack_pointer = 0
    /\ status = "running"
    /\ panic = NoPanic
    /\ opcode = 0
    /\ p = 0
    /\ sp = 0
    /\ output = NoOutput

Init ==
    \/ \E prog \in {MainProgram, AddProgram, SubProgram} :
          InitCPU(Image(prog), MainRegisters)
    \/ \E x \in RegIndex, y \in RegIndex, regs \in RegisterBanks :
          \E w \in {AddWord(x, y), SubWord(x, y)} :
             InitCPU(Image(0 :> w), regs)
    \/ \E w \in SingleWords : InitCPU(Image(0 :> w), MainRegisters)
    \/ \E n \in 0..MaxChain : InitCPU(Image(ChainProgram(n)), MainRegisters)
    \/ \E prog \in SlotPrograms : InitCPU(Image(prog), SlotRegisters)
    \/ \E prog \in CallReturnPrograms : InitCPU(Image(prog), MainRegisters)

Spec == Init /\ [][Next]_vars

(* run is a loop with no yielding: while it is running it takes its next   *)
(* iteration.                                                              *)
FairSpec == Spec /\ WF_vars(Next)

(* The runs of the programs in which no Jump is its own target: each      *)
(* iteration of the loop then changes the state, at least the program     *)
(* counter, so an endless run is a cycle of several states.                *)
NoSelfJump ==
    \A a \in DOMAIN memory :
        ~(/\ Operation(ReadOpcode(memory, a)) = "jump"
          /\ FieldNNN(ReadOpcode(memory, a)) = a)

LoopInit == Init /\ NoSelfJump

LoopSpec == LoopInit /\ [][Next]_vars /\ WF_vars(Next)

TypeOK ==
    /\ registers \in [RegIndex -> Byte]
    /\ DOMAIN memory \subseteq Address
    /\ \A a \in DOMAIN memory : memory[a] \in Byte
    /\ stack \in [StackIndex -> 0..65535]
    /\ position_in_memory \in Nat
    /\ stack_pointer \in Nat
    /\ status \in {"running", "halted", "panicked"}

----------------------------------------------------------------------------
(* Vocabulary of the properties.                                           *)

(* The loop is about to fetch, in bounds, a word the match sends to        *)
(* `name`: the next step executes that operation.                          *)
Executes(name) ==
    /\ Running
    /\ FetchInBounds(position_in_memory)
    /\ Operation(Fetched) = name

(* The operands of the instruction about to execute.                       *)
OperandX == FieldX(Fetched)
OperandY == FieldY(Fetched)

(* The instruction executed last, while the run goes on.                   *)
Executed(name) == Running /\ Operation(opcode) = name

----------------------------------------------------------------------------
(* C1 as claimed: for all 8-bit a, b and all x, y in 0..15, AddRegisters   *)
(* (x, y) with registers[x] = a and registers[y] = b leaves registers[x]   *)
(* = (a + b) mod 256 and registers[15] = 1 iff a + b > 255, else 0.        *)
C1_AddAllRegisters ==
    [][Executes("add_xy") =>
        LET a == registers[OperandX]
            b == registers[OperandY]
        IN  /\ registers'[OperandX] = (a + b) % 256
            /\ registers'[FlagRegister] = (IF a + b > 255 THEN 1 ELSE 0)]_vars

(* C1 amended: for all 8-bit a, b and all x, y in 0..15, AddRegisters(x,   *)
(* y) sets registers[15] to 1 iff a + b > 255, else 0, and for x in 0..14  *)
(* leaves registers[x] = (a + b) mod 256; with x = 15 the flag overwrites  *)
(* the sum.                                                                *)
C1_AddRegisters ==
    [][Executes("add_xy") =>
        LET a == registers[OperandX]
            b == registers[OperandY]
        IN  /\ registers'[FlagRegister] = (IF a + b > 255 THEN 1 ELSE 0)
            /\ OperandX # FlagRegister =>
                  registers'[OperandX] = (a + b) % 256]_vars

(* An addition that wrapped has been executed, into a register other than  *)
(* the flag.                                                               *)
C1_Witness ==
    /\ Executed("add_xy")
    /\ output.op = "+"
    /\ output.lhs + output.rhs > 255
    /\ FieldX(opcode) # FlagRegister
    /\ registers[FieldX(opcode)] = output.lhs + output.rhs - 256
    /\ registers[FlagRegister] = 1

(* C2 as claimed: for all 8-bit a, b and all x, y in 0..15, SubRegisters   *)
(* (x, y) with registers[x] = a and registers[y] = b leaves registers[y]   *)
(* = (b - a) mod 256 and registers[15] = 1 iff a <= b, else 0; the result  *)
(* goes to the second operand y.                                           *)
C2_SubRegisters ==
    [][Executes("sub_xy") =>
        LET a == registers[OperandX]
            b == registers[OperandY]
        IN  /\ registers'[OperandY] = (b - a) % 256
            /\ registers'[FlagRegister] = (IF a <= b THEN 1 ELSE 0)]_vars

(* C3: a Call fetched at p and followed at once by a Return leaves the     *)
(* program counter at p + 2 and stack_pointer at its value before the      *)
(* Call, and the run goes on.                                              *)
C3_CallReturnRoundTrip ==
    [][(Executed("call") /\ Executes("ret")) =>
        /\ position_in_memory' = p + 2
        /\ stack_pointer' = sp
        /\ status' = "running"]_vars

(* A Return has just undone a Call made with frames already on the stack:  *)
(* the word before the program counter is a Call to where the Return was   *)
(* fetched.                                                                *)
C3_Witness ==
    /\ Executed("ret")
    /\ position_in_memory >= 2
    /\ Operation(ReadOpcode(memory, position_in_memory - 2)) = "call"
    /\ FieldNNN(ReadOpcode(memory, position_in_memory - 2)) = p
    /\ stack[stack_pointer] = position_in_memory
    /\ stack_pointer = sp
    /\ stack_pointer > 0

(* C4 as claimed: a Call with stack_pointer below 16 succeeds, and a Call  *)
(* with stack_pointer = 16 ends the run with the panic "Stack overflow!"   *)
(* of call's own capacity test, the stack unwritten.                       *)
C4_StackCapacity ==
    [][Executes("call") =>
        IF stack_pointer < StackLen
        THEN status' = "running" /\ stack_pointer' = stack_pointer + 1
        ELSE /\ status' = "panicked"
             /\ panic' = StackOverflow
             /\ stack' = stack]_vars

(* C5: a Return with stack_pointer = 0 ends the run with "Stack            *)
(* underflow", stack_pointer not decremented and the program counter only  *)
(* advanced past the instruction, not loaded from the stack; a Return      *)
(* with stack_pointer > 0 does not raise it.                               *)
C5_StackUnderflow ==
    [][Executes("ret") =>
        IF stack_pointer = 0
        THEN /\ status' = "panicked"
             /\ panic' = StackUnderflow
             /\ stack_pointer' = 0
             /\ position_in_memory' = position_in_memory + 2
        ELSE /\ status' = "running"
             /\ panic' = NoPanic]_vars

(* A Return has underflowed after earlier calls had returned.              *)
C5_Witness ==
    /\ status = "panicked"
    /\ panic = StackUnderflow
    /\ opcode = RetWord
    /\ stack_pointer = 0
    /\ stack[0] # 0

(* The table of supported instruction shapes.                              *)
InTable(c, x, y, d) ==
    \/ c = 0 /\ x = 0 /\ y = 0 /\ d = 0
    \/ c = 0 /\ x = 0 /\ y = 14 /\ d = 14
    \/ c = 1
    \/ c = 2
    \/ c = 8 /\ d = 4
    \/ c = 8 /\ d = 5

(* C6: every fetched word whose fields (class, x, y, d) are not in the     *)
(* table ends the run with UnsupportedOpcode carrying that word, with      *)
(* registers, stack and stack_pointer as they were; every word in the      *)
(* table does the operation the table lists for it.                        *)
C6_DispatchTotal ==
    [][(Running /\ FetchInBounds(position_in_memory)) =>
        LET w == Fetched
            c == (w \div 4096) % 16
            x == (w \div 256) % 16
            y == (w \div 16) % 16
            d == w % 16
            nnn == w % 4096
        IN  IF ~InTable(c, x, y, d)
            THEN /\ status' = "panicked"
                 /\ panic' = UnsupportedOpcode(w)
                 /\ UNCHANGED <<registers, stack, stack_pointer>>
            ELSE CASE c = 0 /\ y = 0 ->
                        status' = "halted" /\ panic' = NoPanic
                   [] c = 0 /\ y = 14 -> ret
                   [] c = 1 -> jump(nnn)
                   [] c = 2 -> call(nnn)
                   [] c = 8 /\ d = 4 -> add_xy(x, y)
                   [] c = 8 /\ d = 5 -> sub_xy(x, y)]_vars

(* The word 0x01EE, a Return but for its x field, has ended the run as     *)
(* unsupported.                                                            *)
C6_Witness ==
    /\ status = "panicked"
    /\ opcode = 494
    /\ panic = UnsupportedOpcode(494)
    /\ stack_pointer = 0

(* C7: in every reachable state 0 <= stack_pointer <= 16.                  *)
C7_StackPointerBound == stack_pointer \in 0..StackLen

(* The stack is full and the run goes on.                                  *)
C7_Witness == Running /\ stack_pointer = StackLen /\ Executes("call")

(* C8 as claimed: before every fetch 0 <= program counter <= 4094, so the  *)
(* fetch never fails.                                                      *)
C8_ProgramCounterValid ==
    Running => position_in_memory \in 0..(MemoryLen - 2)

(* C9 as claimed: right after any AddRegisters or SubRegisters, for every  *)
(* operand pair, registers[15] is 0 or 1 and is the carry (a + b > 255)    *)
(* of the addition or the no-borrow (a <= b) of the subtraction b - a.     *)
C9_FlagFresh ==
    [][(Executes("add_xy") \/ Executes("sub_xy")) =>
        LET a == registers[OperandX]
            b == registers[OperandY]
        IN  /\ registers'[FlagRegister] \in {0, 1}
            /\ Executes("add_xy") =>
                  registers'[FlagRegister] = (IF a + b > 255 THEN 1 ELSE 0)
            /\ Executes("sub_xy") =>
                  registers'[FlagRegister] = (IF a <= b THEN 1 ELSE 0)]_vars

(* The start of scenario 1 and the state it is to reach.                   *)
Scenario1Start ==
    /\ memory = Image(AddProgram)
    /\ registers = MainRegisters
    /\ position_in_memory = 0
    /\ stack_pointer = 0
    /\ Running

Scenario1Returned ==
    /\ Running
    /\ registers[0] = 15
    /\ registers[FlagRegister] = 0
    /\ position_in_memory = 2
    /\ stack_pointer = 0

Scenario1Halted ==
    /\ status = "halted"
    /\ opcode = HaltWord
    /\ p = 2
    /\ registers[0] = 15
    /\ registers[FlagRegister] = 0
    /\ stack_pointer = 0

(* C10: from Call 0x100 at 0, AddRegisters(0, 1) and Return at 0x100,      *)
(* registers[0] = 5, registers[1] = 10 and pc = 0, the run reaches         *)
(* registers[0] = 15, registers[15] = 0, pc = 2, stack_pointer = 0, and    *)
(* then halts on the zero word at 2.                                       *)
C10_Scenario1 ==
    [](Scenario1Start => <>(Scenario1Returned /\ <>Scenario1Halted))

(* Scenario 1 has halted with its result.                                  *)
C10_Witness == memory = Image(AddProgram) /\ Scenario1Halted


(* C11 as claimed: the run of scenario 2 (Call 0x100 at 0; Call 0x200,     *)
(* Return at 0x100; SubRegisters(0, 1), Return at 0x200; registers[0] =    *)
(* 5, registers[1] = 10) ends halted on the zero word at 2 with            *)
(* registers[1] = 5, registers[15] = 1 and stack_pointer = 0.              *)
C11_Scenario2 ==
    (memory = Image(SubProgram) /\ status # "running") =>
        /\ status = "halted"
        /\ opcode = HaltWord
        /\ p = 2
        /\ stack_pointer = 0
        /\ registers[1] = 5
        /\ registers[FlagRegister] = 1

(* C12 as claimed: a run stops only by Halt, on the word 0x0000, or by     *)
(* one of StackOverflow, StackUnderflow and UnsupportedOpcode; never by    *)
(* another fault such as an index out of range.                            *)
C12_FailureSurface ==
    /\ status = "halted" => opcode = HaltWord /\ panic = NoPanic
    /\ status = "panicked" =>
          \/ panic = StackOverflow
          \/ panic = StackUnderflow
          \/ panic = UnsupportedOpcode(opcode)


(* C13 as claimed: from every initial state the loop eventually stops, by  *)
(* Halt or by a fatal condition.                                           *)
C13_RunToCompletion == <>(status # "running")

(* C13 amended: from every initial state the loop eventually stops, by     *)
(* Halt or by a fatal condition, unless it executes Jump instructions      *)
(* again and again; a run that keeps fetching forever does so only         *)
(* through Jump.                                                           *)
C13_StopsOrJumpsForever == <>(status # "running") \/ []<>Executes("jump")

(* A loop of an addition and a Jump back to it has come round: the Jump    *)
(* at 2 has been executed after the addition at 0 and fetches it again.    *)
C13_Witness ==
    /\ Executed("jump")
    /\ p = 2
    /\ position_in_memory = 0
    /\ output.op = "+"
    /\ Executes("add_xy")

(* C14: a Call(addr) fetched at p with a free stack slot stores p + 2 into *)
(* stack[sp_old], sets stack_pointer = sp_old + 1 and pc = addr, the low   *)
(* 12 bits of the word, and leaves every other stack slot, the registers   *)
(* and memory unchanged.                                                   *)
C14_CallSuccess ==
    [][(Executes("call") /\ stack_pointer < StackLen) =>
        /\ stack'[stack_pointer] = position_in_memory + 2
        /\ \A i \in StackIndex \ {stack_pointer} : stack'[i] = stack[i]
        /\ stack_pointer' = stack_pointer + 1
        /\ position_in_memory' = Fetched % 4096
        /\ registers' = registers
        /\ memory' = memory
        /\ status' = "running"]_vars

(* A nested Call from beyond address 255 has been executed.                *)
C14_Witness ==
    /\ Executed("call")
    /\ sp > 0
    /\ p > 255
    /\ stack_pointer = sp + 1
    /\ stack[sp] = p + 2
    /\ position_in_memory = opcode % 4096

(* C15: for every 12-bit addr, Jump(addr) sets pc = addr without a fault   *)
(* and leaves registers, stack, stack_pointer and memory unchanged; with   *)
(* addr = 0xFFF the failure comes only at the next fetch, which indexes    *)
(* memory[4096].                                                           *)
C15_JumpLazy ==
    [][/\ Executes("jump") =>
            /\ position_in_memory' = Fetched % 4096
            /\ status' = "running"
            /\ panic' = NoPanic
            /\ UNCHANGED <<registers, stack, stack_pointer, memory>>
       /\ (Executed("jump") /\ position_in_memory = 4095) =>
            /\ status' = "panicked"
            /\ panic' = IndexOutOfBounds(4096)]_vars

(* The fetch after a Jump to 0xFFF has failed.                             *)
C15_Witness ==
    /\ status = "panicked"
    /\ panic = IndexOutOfBounds(4096)
    /\ Operation(opcode) = "jump"
    /\ opcode % 4096 = 4095
    /\ p = 4095
    /\ position_in_memory = 4095

(* The words of the two arithmetic instructions: class 8, sub-opcode 4 or  *)
(* 5.                                                                      *)
ArithmeticWord(w) == (w \div 4096) % 16 = 8 /\ w % 16 \in {4, 5}

(* C16: a step that executes Halt, Jump, Call or Return, or that faults,   *)
(* leaves all 16 registers as they were; registers change only in steps    *)
(* that execute AddRegisters or SubRegisters.                              *)
C16_RegistersFrame ==
    [][registers' # registers =>
        /\ Running
        /\ FetchInBounds(position_in_memory)
        /\ ArithmeticWord(Fetched)]_vars

(* A carry set by an addition has lived through a Return.                  *)
C16_Witness ==
    /\ Executed("ret")
    /\ output.op = "+"
    /\ registers[FlagRegister] = 1


(* C17: Return never modifies the stack and resumes at the address pushed  *)
(* by the latest Call not yet returned from, the slot just below           *)
(* stack_pointer, which it frees; a Call leaves the slots below            *)
(* stack_pointer as they were.  So n nested Calls followed by n Returns    *)
(* consume the return addresses in reverse order and leave stack_pointer   *)
(* and the slots below it as they were.                                    *)
C17_StackLifo ==
    [][/\ Executes("ret") => stack' = stack
       /\ (Executes("ret") /\ stack_pointer > 0) =>
            /\ position_in_memory' = stack[stack_pointer - 1]
            /\ stack_pointer' = stack_pointer - 1
       /\ (Executes("call") /\ stack_pointer < StackLen) =>
            /\ stack'[stack_pointer] = position_in_memory + 2
            /\ stack_pointer' = stack_pointer + 1
            /\ \A i \in 0..(stack_pointer - 1) : stack'[i] = stack[i]]_vars

(* Sixteen nested Calls have been returned from, innermost first, and the  *)
(* run has halted on the word after the first Call.                        *)
C17_Witness ==
    /\ status = "halted"
    /\ p = 2
    /\ stack_pointer = 0
    /\ \A i \in StackIndex : stack[i] = 16 * i + 2

(* C18: in every reachable state the program counter is at most 0x1000,    *)
(* so every return address on the stack is the untruncated program         *)
(* counter of its Call, and a Return restores exactly that value.          *)
C18_ProgramCounterFits ==
    /\ position_in_memory \in 0..MemoryLen
    /\ \A i \in 0..(stack_pointer - 1) : stack[i] \in 2..MemoryLen
    /\ Executed("call") => stack[stack_pointer - 1] = p + 2
    /\ (Executed("ret") /\ stack_pointer < StackLen) =>
          position_in_memory = stack[stack_pointer]

(* A Return has restored the largest program counter, 0x1000, pushed by a  *)
(* Call in the last two bytes of memory.                                   *)
C18_Witness ==
    /\ Executed("ret")
    /\ position_in_memory = MemoryLen
    /\ stack[stack_pointer] = MemoryLen

(* C19: no step writes memory: in every step memory stays the image loaded *)
(* before the loop, so an address always decodes to the same instruction.  *)
C19_MemoryReadOnly ==
    [][/\ memory' = memory
       /\ \A a \in {0, 2, 256, 258, 512, 514, 4094} :
             ReadOpcode(memory', a) = ReadOpcode(memory, a)]_vars

(* The program of main has run to its Halt with its memory as loaded.      *)
C19_Witness ==
    /\ status = "halted"
    /\ memory = Image(MainProgram)
    /\ p = 4
    /\ output.op = "-"


(* The run of the program of main, state by state: program counter,        *)
(* stack_pointer, registers 0, 1 and 15, and status, before each of its    *)
(* seven fetches and after the last.                                       *)
Config ==
    <<position_in_memory, stack_pointer, registers[0], registers[1],
      registers[FlagRegister], status>>

MainTrace ==
    << <<0, 0, 5, 10, 0, "running">>,
       <<256, 1, 5, 10, 0, "running">>,
       <<258, 1, 15, 10, 0, "running">>,
       <<2, 0, 15, 10, 0, "running">>,
       <<512, 1, 15, 10, 0, "running">>,
       <<514, 1, 5, 10, 0, "running">>,
       <<4, 0, 5, 10, 0, "running">>,
       <<6, 0, 5, 10, 0, "halted">> >>

(* C20: the program built in main ends by Halt, with no fault, after       *)
(* exactly 7 fetched instructions, with stack_pointer = 0, pc = 6,         *)
(* registers[0] = 5, registers[1] = 10 and registers[15] = 0.              *)
C20_MainRun ==
    /\ [](memory = Image(MainProgram) =>
            <>(Config = MainTrace[8] /\ panic = NoPanic /\ opcode = HaltWord))
    /\ [][memory = Image(MainProgram) =>
            \E i \in 1..7 : Config = MainTrace[i] /\ Config' = MainTrace[i + 1]]_vars

(* The program of main has halted on its seventh fetch, at 4.              *)
C20_Witness ==
    /\ memory = Image(MainProgram)
    /\ Config = MainTrace[8]
    /\ p = 4
    /\ opcode = HaltWord
    /\ panic = NoPanic

====
